---- MODULE Spec2Model ----
(***************************************************************************)
(* Momentum Engine: tiered AI orchestration and per-user budget ledger.    *)
(*                                                                         *)
(* The model follows momentum_engine/ai/orchestrator.py (AIOrchestrator)   *)
(* and momentum_engine/ai/cost_tracker.py (CostTracker).  Every await on   *)
(* the database session or on the provider is a separate step, so that     *)
(* requests of the same user interleave exactly where the coroutines can.  *)
(*                                                                         *)
(* Money is counted in units of 10^-8 USD, the smallest unit in which the  *)
(* per-token rates of CostTracker.COSTS are whole numbers.                 *)
(***************************************************************************)
EXTENDS Integers, Sequences, FiniteSets, TLC

\* ------------------------------------------------------------------ bounds
\* number of requests (select_task / generate_weekly_report) in one behaviour
MaxReq == 2
\* number of update_streak calls that can be running at once
MaxCalls == 2
\* the last calendar day of a behaviour (the first is day 0)
MaxDay == 3
\* number of content_swaps rows in one behaviour
MaxSwaps == 2

\* --------------------------------------------------------------- constants
\* one cent and one millionth of a dollar, in units of 10^-8 USD
UnitsPerCent == 1000000
UnitsPerMicro == 100

\* CostTracker.MONTHLY_BUDGET_USD = Decimal("0.50")
MONTHLY_BUDGET_USD == 50 * UnitsPerCent
\* CostTracker.TIER3_WEEKLY_LIMIT
TIER3_WEEKLY_LIMIT == 1

\* CostTracker.COSTS: cost per 1K tokens, in units of 10^-8 USD
COSTS == [t \in {2, 3} |->
            IF t = 2 THEN [input |-> 25000, output |-> 125000]
                     ELSE [input |-> 300000, output |-> 1500000]]

\* ------------------------------------------------------------------ inputs
\* every statement of CostTracker is keyed by user_id and touches one row, so
\* requests of different users share no state; the requests of one user are
\* the ones that interleave on a row
Users == {"u1"}
Reqs == 1..MaxReq
Calls == 1..MaxCalls
Days == 0..MaxDay

\* a missing key of the context dict
Missing == -1
\* context["recent_accuracy"], context["consecutive_failures"]
AccuracyInputs == {Missing, 59, 60}
FailureInputs == {Missing, 1, 2}
\* context["available_task_ids"]
TaskListInputs == {<<>>, <<7, 9>>}
\* context["weak_modules"]
WeakModuleInputs == {<<>>, <<"writing">>}
\* task ids a provider reply can parse to (one offered, one not offered)
ProviderTaskIds == {7, 4}
\* (input_tokens, output_tokens) a provider response can report, per tier:
\*   tier 2:   500/50   -> 0.0001875 USD,  20000/50  -> 0.0050625 USD
\*   tier 3:  1000/500  -> 0.0105 USD,      5000/500 -> 0.0225 USD
TokenInputs == [t \in {2, 3} |->
                  IF t = 2 THEN {<<500, 50>>, <<20000, 50>>}
                           ELSE {<<1000, 500>>, <<5000, 500>>}]

\* the user_ai_budgets row of a user that has none
\* (spend is current_month_spend, t3 is tier3_calls_this_week, lifetime is
\* total_lifetime_spend, which no statement of the repository writes)
NoRow == [exists |-> FALSE, spend |-> 0, t3 |-> 0, lifetime |-> 0]
Row(spend, t3) == [exists |-> TRUE, spend |-> spend, t3 |-> t3, lifetime |-> 0]
\* rows the table can hold when the process starts (written by earlier
\* log_usage calls): no row, a fresh row, spend just below, at and above the
\* monthly budget
InitRows == {NoRow, Row(48 * UnitsPerCent, 0), Row(48 * UnitsPerCent, 1),
             Row(50 * UnitsPerCent, 0), Row(52 * UnitsPerCent, 1)}

VARIABLES
    db,                 \* CostTracker._db is set (TRUE) or None (FALSE)
    ledger,             \* table user_ai_budgets: user -> row
    usageLog,           \* table ai_usage_logs, in insertion order
    req,                \* the requests: position, locals and returned value
    maintenance         \* the maintenance operation that ran last, if any

VARIABLES
    users,              \* table users: learner -> row
    tracks,             \* table tracks: the set of its rows
    streaks,            \* table streaks: learner -> row
    content_swaps,      \* table content_swaps, in insertion order
    today,              \* date.today(), in days since the first day
    call,               \* the update_streak calls: position and the row read
    reply               \* the call handled last: arguments and response

\* the tables and calls of the rule classifier
tables == <<users, tracks, streaks, content_swaps, today, call>>
rules == <<tables, reply>>
\* the state of the escalation router and its ledger
ai == <<db, ledger, usageLog, req, maintenance>>

vars == <<db, ledger, usageLog, req, maintenance,
          users, tracks, streaks, content_swaps, today, call, reply>>

\* ------------------------------------------------------- numeric columns
\* a value stored in a Numeric(6, 2) column: rounded to whole cents
Numeric_6_2(x) == ((x + UnitsPerCent \div 2) \div UnitsPerCent) * UnitsPerCent
\* a value stored in a Numeric(10, 6) column: rounded to 10^-6 USD
Numeric_10_6(x) == ((x + UnitsPerMicro \div 2) \div UnitsPerMicro) * UnitsPerMicro


\* ------------------------------------------------------------ CostTracker
\* has_budget with the monthly comparison written > instead of >=
has_budget_StrictCeiling(dbv, row, tier) ==
    IF ~dbv THEN TRUE
    ELSE IF ~row.exists THEN TRUE
    ELSE IF row.spend > MONTHLY_BUDGET_USD THEN FALSE
    ELSE IF tier = 3 /\ row.t3 >= TIER3_WEEKLY_LIMIT THEN FALSE
    ELSE TRUE

\* CostTracker.has_budget: what the check answers when _db is dbv and the
\* SELECT returned row
has_budget(dbv, row, tier) ==
    IF ~dbv THEN TRUE
    ELSE IF ~row.exists THEN TRUE
    ELSE IF row.spend >= MONTHLY_BUDGET_USD THEN FALSE
    ELSE IF tier = 3 /\ row.t3 >= TIER3_WEEKLY_LIMIT THEN FALSE
    ELSE TRUE

\* the cost with every tier charged at the tier-2 rates
usage_cost_Tier2Rates(tier, input_tokens, output_tokens) ==
    (input_tokens * COSTS[2].input) \div 1000
      + (output_tokens * COSTS[2].output) \div 1000

\* CostTracker.log_usage, "Calculate cost"
usage_cost(tier, input_tokens, output_tokens) ==
    LET tier_costs == IF tier \in DOMAIN COSTS THEN COSTS[tier] ELSE COSTS[2]
    IN  (input_tokens * tier_costs.input) \div 1000
          + (output_tokens * tier_costs.output) \div 1000

\* the upsert with DO UPDATE SET current_month_spend = :cost
budget_upsert_Replace(row, cost, tier) ==
    IF ~row.exists
    THEN Row(Numeric_6_2(cost), IF tier = 3 THEN 1 ELSE 0)
    ELSE [row EXCEPT !.spend = Numeric_6_2(cost),
                     !.t3 = IF tier = 3 THEN row.t3 + 1 ELSE row.t3]

\* CostTracker.log_usage, "Update user budget": the row the upsert leaves
budget_upsert(row, cost, tier) ==
    IF ~row.exists
    THEN Row(Numeric_6_2(cost), IF tier = 3 THEN 1 ELSE 0)
    ELSE [row EXCEPT !.spend = Numeric_6_2(row.spend + cost),
                     !.t3 = IF tier = 3 THEN row.t3 + 1 ELSE row.t3]

\* CostTracker.log_usage, "Insert usage log": the row appended
usage_record(user, tier, input_tokens, output_tokens, cost) ==
    [user_id |-> user, tier |-> tier, operation |-> "api_call",
     tokens_input |-> input_tokens, tokens_output |-> output_tokens,
     tokens_total |-> input_tokens + output_tokens,
     cost_usd |-> Numeric_10_6(cost), success |-> TRUE]

\* ---------------------------------------------------------- AIOrchestrator
None == 0
Get(v, default) == IF v = Missing THEN default ELSE v

\* _needs_ai_intervention with the accuracy comparison written <= 60
_needs_ai_intervention_Inclusive(context) ==
    LET recent_accuracy == Get(context.recent_accuracy, 100)
        consecutive_failures == Get(context.consecutive_failures, 0)
    IN  recent_accuracy <= 60 \/ consecutive_failures >= 2

\* AIOrchestrator._needs_ai_intervention
_needs_ai_intervention(context) ==
    LET recent_accuracy == Get(context.recent_accuracy, 100)
        consecutive_failures == Get(context.consecutive_failures, 0)
    IN  recent_accuracy < 60 \/ consecutive_failures >= 2

\* AIOrchestrator._tier1_task_selection
_tier1_task_selection(context) ==
    LET weak_modules == context.weak_modules
        available_tasks == context.available_task_ids
        selected_id == IF weak_modules # <<>> /\ available_tasks # <<>>
                       THEN available_tasks[1]
                       ELSE IF available_tasks # <<>> THEN available_tasks[1]
                            ELSE None
    IN  [tier |-> 1, selected_task_id |-> selected_id, report |-> "", cost |-> 0]

\* AIOrchestrator._tier2_task_selection, the value returned
_tier2_result(task_id, cost) ==
    [tier |-> 2, selected_task_id |-> task_id, report |-> "", cost |-> cost]

\* AIOrchestrator._tier3_weekly_report, the value returned
_tier3_result(cost) ==
    [tier |-> 3, selected_task_id |-> None, report |-> "ai", cost |-> cost]

\* AIOrchestrator._template_weekly_report
_template_weekly_report ==
    [tier |-> 0, selected_task_id |-> None, report |-> "template", cost |-> 0]

NoResult == [tier |-> -1, selected_task_id |-> None, report |-> "", cost |-> 0]
Contexts == [recent_accuracy : AccuracyInputs, consecutive_failures : FailureInputs,
             weak_modules : WeakModuleInputs, available_task_ids : TaskListInputs]
\* the keys of the context that are still read after _needs_ai_intervention
NoContext == [weak_modules |-> <<>>, available_task_ids |-> <<>>]
Live(context) == [weak_modules |-> context.weak_modules,
                  available_task_ids |-> context.available_task_ids]

\* a request that has not been made yet.  A request holds the handler's
\* position and live locals while it runs, and the user, the returned value
\* and the way it was reached once it has returned.
NoUser == "none"
IdleReq == [pc |-> "idle", kind |-> "none", user |-> NoUser, context |-> NoContext,
            usage |-> <<0, 0>>, task_id |-> None, how |-> "none",
            result |-> NoResult]

TierOf(r) == IF req[r].kind = "select_task" THEN 2 ELSE 3

\* the deterministic value both handlers fall back to
Fallback(r) == IF req[r].kind = "select_task"
               THEN _tier1_task_selection(req[r].context)
               ELSE _template_weekly_report

\* the handler returns value; how names the path taken
Return(r, value, how) ==
    [IdleReq EXCEPT !.pc = "returned", !.kind = req[r].kind, !.user = req[r].user,
                    !.how = how, !.result = value]

\* -------------------------------------------------- NavigatorService rules
\* a DiagnosticRequest after validation; diagnostic_score is a multiple of 0.5,
\* in tenths of a band (65 = 6.5)
NoModule == "none"
ScoreInputs == {50, 55, 60, 65, 70}
DaysInputs == {20, 21, 45, 46, 60, 90, 91}
TestTypeInputs == {"academic", "general"}
WeakModuleChoices == {NoModule, "writing", "speaking", "reading"}
MinutesInputs == {19, 20, 29, 30, 89, 90}
DiagnosticRequests ==
    [diagnostic_score : ScoreInputs, days_until_exam : DaysInputs,
     test_type : TestTypeInputs, weak_module : WeakModuleChoices,
     daily_availability_minutes : MinutesInputs,
     weekend_availability : BOOLEAN]

\* assign_track with the first two priorities exchanged
assign_track_ScoreFirst(diagnostic_score, days_until_exam, test_type, weak_module, daily_availability_minutes, weekend_availability) ==
    IF diagnostic_score >= 65 THEN "sprint"
    ELSE IF days_until_exam < 21
    THEN (IF test_type = "academic" THEN "academic_fast_track"
                                    ELSE "general_fast_track")
    ELSE IF diagnostic_score < 55 THEN "foundation"
    ELSE IF weak_module = "writing" THEN "writing_focus"
    ELSE IF weak_module = "speaking" THEN "speaking_focus"
    ELSE IF daily_availability_minutes < 20 /\ weekend_availability
    THEN "weekend_warrior"
    ELSE IF daily_availability_minutes >= 90 THEN "intensive"
    ELSE IF daily_availability_minutes < 30 THEN "professional_marathon"
    ELSE IF days_until_exam > 90 THEN "foundation"
    ELSE IF days_until_exam > 45 THEN "balanced"
    ELSE "professional_marathon"

\* NavigatorService.assign_track
assign_track(diagnostic_score, days_until_exam, test_type, weak_module, daily_availability_minutes, weekend_availability) ==
    IF days_until_exam < 21
    THEN (IF test_type = "academic" THEN "academic_fast_track"
                                    ELSE "general_fast_track")
    ELSE IF diagnostic_score >= 65 THEN "sprint"
    ELSE IF diagnostic_score < 55 THEN "foundation"
    ELSE IF weak_module = "writing" THEN "writing_focus"
    ELSE IF weak_module = "speaking" THEN "speaking_focus"
    ELSE IF daily_availability_minutes < 20 /\ weekend_availability
    THEN "weekend_warrior"
    ELSE IF daily_availability_minutes >= 90 THEN "intensive"
    ELSE IF daily_availability_minutes < 30 THEN "professional_marathon"
    ELSE IF days_until_exam > 90 THEN "foundation"
    ELSE IF days_until_exam > 45 THEN "balanced"
    ELSE "professional_marathon"

\* seed_database, "Create demo tracks": the rows it adds to table tracks
Track(name, duration_weeks, daily_minutes) ==
    [name |-> name, duration_weeks |-> duration_weeks,
     daily_minutes |-> daily_minutes]
demo_tracks ==
    {Track("sprint", 2, 50), Track("foundation", 12, 40),
     Track("professional_marathon", 8, 25), Track("intensive", 4, 100),
     Track("balanced", 6, 50), Track("academic_fast_track", 3, 65),
     Track("general_fast_track", 3, 65)}

\* the users row of a learner that has none, and of one on a track
NoTrack == "none"
NoUserRow == [exists |-> FALSE, current_track |-> NoTrack]
UserRow(track) == [exists |-> TRUE, current_track |-> track]

\* table tasks (with the name of the task's track); a title is the sequence
\* of its words
Tasks ==
    { [id |-> 1, track |-> "sprint", type |-> "strategy",
       title |-> <<"Writing", "Strategy">>],
      [id |-> 2, track |-> "sprint", type |-> "writing",
       title |-> <<"writing", "task">>],
      [id |-> 3, track |-> "sprint", type |-> "reading",
       title |-> <<"reading", "practice">>],
      [id |-> 4, track |-> "foundation", type |-> "practice",
       title |-> <<"grammar", "practice">>],
      [id |-> 5, track |-> "foundation", type |-> "listening",
       title |-> <<"Listening", "basics">>] }

\* ILIKE compares without regard to case
Lower(word) ==
    CASE word = "Writing" -> "writing"
      [] word = "Strategy" -> "strategy"
      [] word = "Listening" -> "listening"
      [] OTHER -> word

\* title ILIKE '%a%'
ilike(title, a) == \E i \in DOMAIN title : Lower(title[i]) = Lower(a)
\* title ILIKE '%a%b%'
ilike2(title, a, b) ==
    \E i, j \in DOMAIN title :
        i < j /\ Lower(title[i]) = Lower(a) /\ Lower(title[j]) = Lower(b)

\* NavigatorService._get_intervention_task, the first query: the rows it can
\* return (LIMIT 1 without ORDER BY returns any of them)
StrategyTasks(module, track_name) ==
    {t \in Tasks : /\ t.track = track_name
                   /\ t.type \in {"strategy", "remediation", "practice"}
                   /\ \/ ilike2(t.title, module, "strategy")
                      \/ ilike2(t.title, module, "intervention")
                      \/ ilike2(t.title, module, "practice")}
\* the fallback query
ModuleTasks(module, track_name) ==
    {t \in Tasks : t.track = track_name /\ ilike(t.title, module)}

\* _get_intervention_task without the fallback query
_get_intervention_task_NoFallback(module, track_name) ==
    StrategyTasks(module, track_name)

\* NavigatorService._get_intervention_task: the rows it can return
_get_intervention_task(module, track_name) ==
    IF StrategyTasks(module, track_name) # {}
    THEN StrategyTasks(module, track_name)
    ELSE ModuleTasks(module, track_name)

\* check_performance_and_swap: FAILING_THRESHOLD and its inputs
FAILING_THRESHOLD == 60
SwapScoreInputs == {40, 59, 60, 61}
SwapModuleInputs == {"writing", "reading", "listening", "speaking"}
CompletedTaskInputs == {2}

\* ---------------------------------------------------- GamificationService
\* a last_activity_date that is NULL
NoDate == -1
\* the streaks row of a learner that has none, and a row
NoStreak == [exists |-> FALSE, current_streak |-> 0, longest_streak |-> 0,
             last_activity_date |-> NoDate]
Streak(current, longest, last) ==
    [exists |-> TRUE, current_streak |-> current, longest_streak |-> longest,
     last_activity_date |-> last]

\* update_streak, "Check for streak milestones": the first milestone crossed
milestones == <<7, 14, 30, 60, 90>>
\* the milestone test written previous_streak <= m
milestone_reached_OnOrAfter(previous_streak, current_streak) ==
    LET crossed == {i \in DOMAIN milestones :
                      previous_streak <= milestones[i]
                        /\ milestones[i] <= current_streak}
    IN  IF crossed = {} THEN None
        ELSE milestones[CHOOSE i \in crossed : \A j \in crossed : i <= j]

milestone_reached(previous_streak, current_streak) ==
    LET crossed == {i \in DOMAIN milestones :
                      previous_streak < milestones[i]
                        /\ milestones[i] <= current_streak}
    IN  IF crossed = {} THEN None
        ELSE milestones[CHOOSE i \in crossed : \A j \in crossed : i <= j]

\* update_streak with every gap of a day or more counted as consecutive
streak_after_GapIncrements(streak, day) ==
    LET current == IF streak.last_activity_date = NoDate THEN 1
                   ELSE IF streak.last_activity_date = day
                   THEN streak.current_streak
                   ELSE streak.current_streak + 1
        longest == IF current > streak.longest_streak THEN current
                   ELSE streak.longest_streak
    IN  Streak(current, longest, day)

\* update_streak with the same-day branch left out
streak_after_NoSameDay(streak, day) ==
    LET current == IF streak.last_activity_date = NoDate THEN 1
                   ELSE IF day - streak.last_activity_date = 1
                   THEN streak.current_streak + 1
                   ELSE 1
        longest == IF current > streak.longest_streak THEN current
                   ELSE streak.longest_streak
    IN  Streak(current, longest, day)

\* update_streak, from "today = date.today()" to "last_activity_date = today":
\* the attributes of the loaded row after the handler's assignments
streak_after(streak, day) ==
    LET current == IF streak.last_activity_date = NoDate THEN 1
                   ELSE IF streak.last_activity_date = day
                   THEN streak.current_streak
                   ELSE IF day - streak.last_activity_date = 1
                   THEN streak.current_streak + 1
                   ELSE 1
        longest == IF current > streak.longest_streak THEN current
                   ELSE streak.longest_streak
    IN  Streak(current, longest, day)

\* session.commit() of get_db: the unit of work writes the attributes whose
\* value differs from the one loaded, and leaves the row's other columns
flush(row, loaded, assigned) ==
    [exists |-> TRUE,
     current_streak |-> IF assigned.current_streak # loaded.current_streak
                        THEN assigned.current_streak ELSE row.current_streak,
     longest_streak |-> IF assigned.longest_streak # loaded.longest_streak
                        THEN assigned.longest_streak ELSE row.longest_streak,
     last_activity_date |->
         IF assigned.last_activity_date # loaded.last_activity_date
         THEN assigned.last_activity_date ELSE row.last_activity_date]

\* an update_streak call that is not running
IdleCall == [pc |-> "idle", user |-> NoUser, streak |-> NoStreak]

\* the response of a call: what was asked, whether it raised, what it returned
NoReply == [op |-> "none", user |-> NoUser, args |-> <<>>, raised |-> "none",
            result |-> <<>>]
Reply(op, user, args, raised, result) ==
    [op |-> op, user |-> user, args |-> args, raised |-> raised, result |-> result]

\* ------------------------------------------------------------------ state
Init ==
    /\ db = FALSE
    /\ ledger \in [Users -> InitRows]
    /\ usageLog = <<>>
    /\ req = [r \in Reqs |-> IdleReq]
    /\ maintenance = "none"
    /\ users = [u \in Users |-> NoUserRow]
    /\ tracks = demo_tracks
    /\ streaks = [u \in Users |-> NoStreak]
    /\ content_swaps = <<>>
    /\ today = 0
    /\ call = [c \in Calls |-> IdleCall]
    /\ reply = NoReply

\* requests are made in the order of their numbers
CanStart(r) ==
    /\ req[r].pc = "idle"
    /\ \A q \in Reqs : q < r => req[q].pc # "idle"

\* CostTracker.set_db: the session is attached when the orchestrator is
\* wired, before it serves requests
set_db ==
    /\ ~db
    /\ \A r \in Reqs : req[r].pc = "idle"
    /\ db' = TRUE
    /\ UNCHANGED <<ledger, usageLog, req, maintenance, rules>>

\* AIOrchestrator.select_task(user_id, context) up to its first await: the
\* rule result is returned at once when no intervention is needed
select_task_call(r, u, context) ==
    /\ CanStart(r)
    /\ req' = [req EXCEPT ![r] =
                 IF ~_needs_ai_intervention(context)
                 THEN [IdleReq EXCEPT !.pc = "returned", !.kind = "select_task",
                                      !.user = u, !.how = "rule",
                                      !.result = _tier1_task_selection(context)]
                 ELSE [IdleReq EXCEPT !.pc = "has_budget", !.kind = "select_task",
                                      !.user = u, !.context = Live(context)]]
    /\ UNCHANGED <<db, ledger, usageLog, maintenance, tables>>

\* a caller calls select_task
select_task(r) ==
    \E u \in Users, context \in Contexts :
        select_task_call(r, u, context) /\ UNCHANGED reply

\* a caller calls select_task, and the arguments of the call are kept
select_task_observed(r) ==
    \E u \in Users, context \in Contexts :
        /\ select_task_call(r, u, context)
        /\ reply' = Reply("select_task", u, context, "none", <<>>)

\* AIOrchestrator.generate_weekly_report up to its first await
generate_weekly_report(r) ==
    /\ CanStart(r)
    /\ \E u \in Users :
         req' = [req EXCEPT ![r] =
                   [IdleReq EXCEPT !.pc = "has_budget", !.user = u,
                                   !.kind = "generate_weekly_report"]]
    /\ UNCHANGED <<db, ledger, usageLog, maintenance, rules>>

\* the handler with the early return on a denied budget left out
AfterBudgetCheck_IgnoreDenial(r, allowed) ==
    [req[r] EXCEPT !.pc = "provider"]

\* the handler after has_budget answered: denied returns the fallback,
\* allowed goes on to the provider
AfterBudgetCheck(r, allowed) ==
    IF allowed
    THEN [req[r] EXCEPT !.pc = "provider"]
    ELSE Return(r, Fallback(r), "denied")

\* the await of CostTracker.has_budget completes (no _db: no read at all)
BudgetCheck(r) ==
    /\ req[r].pc = "has_budget"
    /\ LET row == IF db THEN ledger[req[r].user] ELSE NoRow
       IN  req' = [req EXCEPT ![r] =
                     AfterBudgetCheck(r, has_budget(db, row, TierOf(r)))]
    /\ UNCHANGED <<db, ledger, usageLog, maintenance, rules>>

\* the SELECT of has_budget raises: has_budget is awaited outside the
\* handlers' try blocks, so the exception leaves the handler
BudgetCheckFault(r) ==
    /\ req[r].pc = "has_budget"
    /\ db
    /\ req' = [req EXCEPT ![r] =
                 [IdleReq EXCEPT !.pc = "raised", !.kind = req[r].kind,
                                 !.user = req[r].user, !.how = "read_fault"]]
    /\ UNCHANGED <<db, ledger, usageLog, maintenance, rules>>

\* the except clause with the failed call charged to the user's budget
ProviderError_Charged(r) ==
    /\ req[r].pc = "provider"
    /\ \E usage \in TokenInputs[TierOf(r)] :
         ledger' = [ledger EXCEPT ![req[r].user] =
                      budget_upsert(@, usage_cost(TierOf(r), usage[1], usage[2]),
                                    TierOf(r))]
    /\ req' = [req EXCEPT ![r] = Return(r, Fallback(r), "provider_error")]
    /\ UNCHANGED <<db, usageLog, maintenance, rules>>

\* anthropic.messages.create raises: caught by the handler's except clause
ProviderError(r) ==
    /\ req[r].pc = "provider"
    /\ req' = [req EXCEPT ![r] = Return(r, Fallback(r), "provider_error")]
    /\ UNCHANGED <<db, ledger, usageLog, maintenance, rules>>

\* the provider answers, but int(text.strip()) or content[0] raises
ProviderMalformed(r) ==
    /\ req[r].pc = "provider"
    /\ req' = [req EXCEPT ![r] = Return(r, Fallback(r), "malformed_response")]
    /\ UNCHANGED <<db, ledger, usageLog, maintenance, rules>>

\* the value _tier2_task_selection / _tier3_weekly_report returns
AIResult(r, task_id, cost) ==
    IF req[r].kind = "select_task" THEN _tier2_result(task_id, cost)
                                    ELSE _tier3_result(cost)

CostOf(r) == usage_cost(TierOf(r), req[r].usage[1], req[r].usage[2])

\* the provider answers and the reply parses; log_usage computes the cost and
\* returns it at once when there is no _db
ProviderResponse(r) ==
    /\ req[r].pc = "provider"
    /\ \E usage \in TokenInputs[TierOf(r)],
          task_id \in IF req[r].kind = "select_task" THEN ProviderTaskIds ELSE {None} :
         req' = [req EXCEPT ![r] =
                   IF ~db
                   THEN Return(r, AIResult(r, task_id,
                                           usage_cost(TierOf(r), usage[1], usage[2])),
                               "ai_no_db")
                   ELSE [req[r] EXCEPT !.pc = "log_insert", !.usage = usage,
                                       !.task_id = task_id]]
    /\ UNCHANGED <<db, ledger, usageLog, maintenance, rules>>

\* log_usage: INSERT INTO ai_usage_logs
LogInsert(r) ==
    /\ req[r].pc = "log_insert"
    /\ usageLog' = Append(usageLog,
                          usage_record(req[r].user, TierOf(r), req[r].usage[1],
                                       req[r].usage[2], CostOf(r)))
    /\ req' = [req EXCEPT ![r] = [req[r] EXCEPT !.pc = "log_upsert"]]
    /\ UNCHANGED <<db, ledger, maintenance, rules>>

\* the INSERT raises: log_usage is left before the budget statement, and the
\* handler's except clause returns the fallback
LogInsertFault(r) ==
    /\ req[r].pc = "log_insert"
    /\ req' = [req EXCEPT ![r] = Return(r, Fallback(r), "insert_fault")]
    /\ UNCHANGED <<db, ledger, usageLog, maintenance, rules>>

\* log_usage: INSERT INTO user_ai_budgets ... ON CONFLICT DO UPDATE, then the
\* AI result is returned
LogUpsert(r) ==
    /\ req[r].pc = "log_upsert"
    /\ ledger' = [ledger EXCEPT ![req[r].user] = budget_upsert(@, CostOf(r), TierOf(r))]
    /\ req' = [req EXCEPT ![r] = Return(r, AIResult(r, req[r].task_id, CostOf(r)), "ai")]
    /\ UNCHANGED <<db, usageLog, maintenance, rules>>

\* the budget statement raises
LogUpsertFault(r) ==
    /\ req[r].pc = "log_upsert"
    /\ req' = [req EXCEPT ![r] = Return(r, Fallback(r), "upsert_fault")]
    /\ UNCHANGED <<db, ledger, usageLog, maintenance, rules>>

\* CostTracker.reset_weekly_limits: the UPDATE is a comment, only the log
\* line is written.  maintenance keeps which job ran last and whether it ran
\* before.
reset_weekly_limits ==
    /\ maintenance' = IF maintenance \in {"weekly", "weekly_again"}
                      THEN "weekly_again" ELSE "weekly"
    /\ UNCHANGED <<db, ledger, usageLog, req, rules>>

\* a monthly reset that halves current_month_spend
reset_monthly_budgets_Halving ==
    /\ maintenance' = IF maintenance \in {"monthly", "monthly_again"}
                      THEN "monthly_again" ELSE "monthly"
    /\ ledger' = [u \in Users |-> [ledger[u] EXCEPT !.spend = @ \div 2]]
    /\ UNCHANGED <<db, usageLog, req, rules>>

\* CostTracker.reset_monthly_budgets: likewise
reset_monthly_budgets ==
    /\ maintenance' = IF maintenance \in {"monthly", "monthly_again"}
                      THEN "monthly_again" ELSE "monthly"
    /\ UNCHANGED <<db, ledger, usageLog, req, rules>>

\* CostTracker.get_monthly_summary: the dict it returns, or the error of its
\* SELECT
get_monthly_summary(u) ==
    LET row == ledger[u]
        budget == MONTHLY_BUDGET_USD
        summary == IF ~db \/ ~row.exists
                   THEN [spend |-> 0, budget |-> budget, remaining |-> budget]
                   ELSE [spend |-> row.spend, budget |-> budget,
                         remaining |-> budget - row.spend,
                         tier3_calls_this_week |-> row.t3]
    IN  /\ \/ reply' = Reply("get_monthly_summary", u, <<>>, "none", summary)
           \/ db /\ reply' = Reply("get_monthly_summary", u, <<>>,
                                   "DatabaseError", <<>>)
        /\ UNCHANGED <<tables, ai>>

\* the requests' steps
Next ==
    \/ set_db
    \/ \E r \in Reqs : select_task(r)
    \/ \E r \in Reqs : generate_weekly_report(r)
    \/ \E r \in Reqs : BudgetCheck(r)
    \/ \E r \in Reqs : BudgetCheckFault(r)
    \/ \E r \in Reqs : ProviderError(r)
    \/ \E r \in Reqs : ProviderMalformed(r)
    \/ \E r \in Reqs : ProviderResponse(r)
    \/ \E r \in Reqs : LogInsert(r)
    \/ \E r \in Reqs : LogInsertFault(r)
    \/ \E r \in Reqs : LogUpsert(r)
    \/ \E r \in Reqs : LogUpsertFault(r)

Spec == Init /\ [][Next]_vars

\* the maintenance operations, run at any time beside one request
MaintReqs == {1}
MaintNext ==
    \/ reset_weekly_limits
    \/ reset_monthly_budgets
    \/ set_db
    \/ \E r \in MaintReqs : select_task(r)
    \/ \E r \in MaintReqs : generate_weekly_report(r)
    \/ \E r \in MaintReqs : BudgetCheck(r)
    \/ \E r \in MaintReqs : BudgetCheckFault(r)
    \/ \E r \in MaintReqs : ProviderError(r)
    \/ \E r \in MaintReqs : ProviderMalformed(r)
    \/ \E r \in MaintReqs : ProviderResponse(r)
    \/ \E r \in MaintReqs : LogInsert(r)
    \/ \E r \in MaintReqs : LogInsertFault(r)
    \/ \E r \in MaintReqs : LogUpsert(r)
    \/ \E r \in MaintReqs : LogUpsertFault(r)

MaintSpec == Init /\ [][MaintNext]_vars

\* the event loop resumes a handler when the database has answered its
\* statement, with a result or with an error; nothing in the handlers bounds
\* the time anthropic.messages.create takes, so no step of the provider is
\* required to happen
DatabaseAnswers ==
    \A r \in Reqs : /\ WF_vars(BudgetCheck(r) \/ BudgetCheckFault(r))
                    /\ WF_vars(LogInsert(r) \/ LogInsertFault(r))
                    /\ WF_vars(LogUpsert(r) \/ LogUpsertFault(r))

LiveSpec == Init /\ [][Next]_vars /\ DatabaseAnswers

\* one select_task or generate_weekly_report request whose arguments are kept
RouteNext ==
    \/ set_db
    \/ \E r \in MaintReqs : select_task_observed(r)
    \/ \E r \in MaintReqs : generate_weekly_report(r)
    \/ \E r \in MaintReqs : BudgetCheck(r)
    \/ \E r \in MaintReqs : BudgetCheckFault(r)
    \/ \E r \in MaintReqs : ProviderError(r)
    \/ \E r \in MaintReqs : ProviderMalformed(r)
    \/ \E r \in MaintReqs : ProviderResponse(r)
    \/ \E r \in MaintReqs : LogInsert(r)
    \/ \E r \in MaintReqs : LogInsertFault(r)
    \/ \E r \in MaintReqs : LogUpsert(r)
    \/ \E r \in MaintReqs : LogUpsertFault(r)

RouteSpec == Init /\ [][RouteNext]_vars

\* one request beside the maintenance jobs and the reads of the summary
LedgerNext ==
    \/ \E u \in Users : get_monthly_summary(u)
    \/ reset_weekly_limits
    \/ reset_monthly_budgets
    \/ set_db
    \/ \E r \in MaintReqs : select_task(r)
    \/ \E r \in MaintReqs : generate_weekly_report(r)
    \/ \E r \in MaintReqs : BudgetCheck(r)
    \/ \E r \in MaintReqs : BudgetCheckFault(r)
    \/ \E r \in MaintReqs : ProviderError(r)
    \/ \E r \in MaintReqs : ProviderMalformed(r)
    \/ \E r \in MaintReqs : ProviderResponse(r)
    \/ \E r \in MaintReqs : LogInsert(r)
    \/ \E r \in MaintReqs : LogInsertFault(r)
    \/ \E r \in MaintReqs : LogUpsert(r)
    \/ \E r \in MaintReqs : LogUpsertFault(r)

LedgerSpec == Init /\ [][LedgerNext]_vars

\* ------------------------------------------------------ the rule classifier
\* NavigatorService.process_diagnostic: an email that is known logs in, a new
\* one gets a users row on the assigned track and a zero streaks row
process_diagnostic(u, request) ==
    LET track_name == assign_track(request.diagnostic_score,
                                   request.days_until_exam, request.test_type,
                                   request.weak_module,
                                   request.daily_availability_minutes,
                                   request.weekend_availability)
        \* "Get track details": the row of that name, if there is one
        track == {t \in tracks : t.name = track_name}
        track_duration == IF track # {} THEN (CHOOSE t \in track : TRUE).duration_weeks
                          ELSE 8
        daily_minutes == IF track # {} THEN (CHOOSE t \in track : TRUE).daily_minutes
                         ELSE 45
    IN  /\ IF users[u].exists
           THEN /\ reply' = Reply("process_diagnostic", u, request, "none",
                                  [assigned_track |-> users[u].current_track,
                                   track_duration_weeks |-> 8,
                                   daily_commitment_minutes |-> 45])
                /\ UNCHANGED <<users, streaks>>
           ELSE /\ users' = [users EXCEPT ![u] = UserRow(track_name)]
                /\ streaks' = [streaks EXCEPT ![u] = Streak(0, 0, NoDate)]
                /\ reply' = Reply("process_diagnostic", u, request, "none",
                                  [assigned_track |-> track_name,
                                   track_duration_weeks |-> track_duration,
                                   daily_commitment_minutes |-> daily_minutes])
        /\ UNCHANGED <<tracks, content_swaps, today, call, ai>>

\* GamificationService.update_streak up to the answer of its SELECT: no row
\* raises NotFoundError, a row is loaded into the session
update_streak(c) ==
    /\ call[c].pc = "idle"
    /\ \A d \in Calls : d < c => call[d].pc # "idle"
    /\ \E u \in Users :
         IF ~streaks[u].exists
         THEN /\ reply' = Reply("update_streak", u, <<>>, "NotFoundError", <<>>)
              /\ UNCHANGED call
         ELSE /\ call' = [call EXCEPT ![c] = [pc |-> "selected", user |-> u,
                                              streak |-> streaks[u]]]
              /\ UNCHANGED reply
    /\ UNCHANGED <<users, tracks, streaks, content_swaps, today, ai>>

\* update_streak from "today = date.today()" to its return, and the commit of
\* get_db that writes the row
update_streak_commit(c) ==
    /\ call[c].pc = "selected"
    /\ LET u == call[c].user
           loaded == call[c].streak
           assigned == streak_after(loaded, today)
       IN  /\ streaks' = [streaks EXCEPT ![u] = flush(@, loaded, assigned)]
           /\ reply' = Reply("update_streak", u, <<>>, "none",
                             [current_streak |-> assigned.current_streak,
                              longest_streak |-> assigned.longest_streak,
                              milestone_reached |->
                                  milestone_reached(loaded.current_streak,
                                                    assigned.current_streak)])
    /\ call' = [call EXCEPT ![c] = IdleCall]
    /\ UNCHANGED <<users, tracks, content_swaps, today, ai>>

\* the calendar day changes
midnight ==
    /\ today < MaxDay
    /\ today' = today + 1
    /\ UNCHANGED <<users, tracks, streaks, content_swaps, call, reply, ai>>

\* NavigatorService.check_performance_and_swap
check_performance_and_swap(u, completed_task_id, score, module) ==
    LET args == [completed_task_id |-> completed_task_id, score |-> score,
                 module |-> module]
        no_swap == Reply("check_performance_and_swap", u, args, "none",
                         [swapped |-> FALSE, intervention_task |-> None])
    IN  /\ IF score >= FAILING_THRESHOLD
           THEN reply' = no_swap /\ UNCHANGED content_swaps
           ELSE IF ~users[u].exists
           THEN reply' = no_swap /\ UNCHANGED content_swaps
           ELSE IF _get_intervention_task(module, users[u].current_track) = {}
           THEN reply' = no_swap /\ UNCHANGED content_swaps
           ELSE /\ Len(content_swaps) < MaxSwaps
                /\ \E intervention_task \in
                        _get_intervention_task(module, users[u].current_track) :
                     /\ content_swaps' =
                          Append(content_swaps,
                                 [user_id |-> u, module |-> module,
                                  weakness_type |-> score,
                                  original_task_id |-> completed_task_id,
                                  intervention_task_id |-> intervention_task.id])
                     /\ reply' = Reply("check_performance_and_swap", u, args, "none",
                                       [swapped |-> TRUE,
                                        intervention_task |-> intervention_task.id])
        /\ UNCHANGED <<users, tracks, streaks, today, call, ai>>

\* seed_database(reset) of main.py: an empty tracks table, or any with reset,
\* gets the demo tracks; an exception is answered with its message, and one
\* raised after the deleting commit leaves the table empty.  (The tasks and
\* the competition the handler rewrites with them are not among the
\* variables.)
seed_database(reset) ==
    LET count == Cardinality(tracks)
        deleted == reset /\ count > 0
        args == [reset |-> reset]
    IN  /\ \/ /\ ~deleted /\ count > 0
              /\ reply' = Reply("seed_database", NoUser, args, "none",
                                [message |-> "Database already seeded",
                                 tracks |-> count])
              /\ UNCHANGED tracks
           \/ /\ deleted \/ count = 0
              /\ tracks' = demo_tracks
              /\ reply' = Reply("seed_database", NoUser, args, "none",
                                [message |-> "Database seeded successfully",
                                 tracks |-> Cardinality(demo_tracks)])
           \/ /\ tracks' = IF deleted THEN {} ELSE tracks
              /\ reply' = Reply("seed_database", NoUser, args, "none",
                                [error |-> "str(e)"])
        /\ UNCHANGED <<users, streaks, content_swaps, today, call, ai>>

\* the escalation router at rest
AIQuiet ==
    /\ db = FALSE
    /\ ledger = [u \in Users |-> NoRow]
    /\ usageLog = <<>>
    /\ req = [r \in Reqs |-> IdleReq]
    /\ maintenance = "none"

\* nobody has been onboarded
NobodyYet ==
    /\ users = [u \in Users |-> NoUserRow]
    /\ tracks = demo_tracks
    /\ streaks = [u \in Users |-> NoStreak]
    /\ content_swaps = <<>>
    /\ today = 0
    /\ call = [c \in Calls |-> IdleCall]
    /\ reply = NoReply

\* the onboarding of a new learner, with every diagnostic request
TrackInit == AIQuiet /\ NobodyYet
TrackNext ==
    \E u \in Users, request \in DiagnosticRequests :
        ~users[u].exists /\ process_diagnostic(u, request)
TrackSpec == TrackInit /\ [][TrackNext]_vars

\* a database without tracks, the seeding endpoint and the onboarding of a
\* new learner
SeedInit ==
    /\ AIQuiet
    /\ users = [u \in Users |-> NoUserRow]
    /\ tracks = {}
    /\ streaks = [u \in Users |-> NoStreak]
    /\ content_swaps = <<>>
    /\ today = 0
    /\ call = [c \in Calls |-> IdleCall]
    /\ reply = NoReply
SeedNext ==
    \/ \E reset \in BOOLEAN : seed_database(reset)
    \/ \E u \in Users, request \in DiagnosticRequests :
         ~users[u].exists /\ process_diagnostic(u, request)
SeedSpec == SeedInit /\ [][SeedNext]_vars

\* diagnostic requests that put a learner on sprint, foundation and balanced
OnboardingRequests ==
    {request \in DiagnosticRequests :
        /\ request.days_until_exam = 46
        /\ request.test_type = "academic"
        /\ request.weak_module = NoModule
        /\ request.daily_availability_minutes = 30
        /\ request.weekend_availability
        /\ request.diagnostic_score \in {50, 55, 65}}

\* streaks rows the table can hold on day 0: none, the row of onboarding, and
\* rows left by earlier activity up to day 0, below each milestone
StreakRows ==
    {NoStreak, Streak(0, 0, NoDate), Streak(5, 5, 0), Streak(6, 9, 0),
     Streak(13, 20, 0), Streak(29, 29, 0), Streak(59, 59, 0), Streak(89, 89, 0)}

\* streaks: onboarding, update_streak calls that interleave, days that pass
StreakInit ==
    /\ AIQuiet
    /\ \E row \in StreakRows :
         /\ streaks = [u \in Users |-> row]
         /\ users = [u \in Users |-> IF row.exists THEN UserRow("balanced")
                                                   ELSE NoUserRow]
    /\ tracks = demo_tracks
    /\ content_swaps = <<>>
    /\ today = 0
    /\ call = [c \in Calls |-> IdleCall]
    /\ reply = NoReply
StreakNext ==
    \/ \E u \in Users, request \in OnboardingRequests : process_diagnostic(u, request)
    \/ \E c \in Calls : update_streak(c)
    \/ \E c \in Calls : update_streak_commit(c)
    \/ midnight
StreakSpec == StreakInit /\ [][StreakNext]_vars

\* one calendar day: the rows were left by activity up to the day before, and
\* every update_streak call starts and ends on day 1
SameDayInit ==
    /\ AIQuiet
    /\ \E row \in StreakRows :
         /\ streaks = [u \in Users |-> row]
         /\ users = [u \in Users |-> IF row.exists THEN UserRow("balanced")
                                                   ELSE NoUserRow]
    /\ tracks = demo_tracks
    /\ content_swaps = <<>>
    /\ today = 1
    /\ call = [c \in Calls |-> IdleCall]
    /\ reply = NoReply
SameDayNext ==
    \/ \E u \in Users, request \in OnboardingRequests : process_diagnostic(u, request)
    \/ \E c \in Calls : update_streak(c)
    \/ \E c \in Calls : update_streak_commit(c)
SameDaySpec == SameDayInit /\ [][SameDayNext]_vars

\* task completions of a learner, who may not have been onboarded
SwapInit == AIQuiet /\ NobodyYet
SwapNext ==
    \/ \E u \in Users, request \in OnboardingRequests : process_diagnostic(u, request)
    \/ \E u \in Users, completed_task_id \in CompletedTaskInputs,
          score \in SwapScoreInputs, module \in SwapModuleInputs :
         check_performance_and_swap(u, completed_task_id, score, module)
    \/ \E c \in Calls : update_streak(c)
    \/ \E c \in Calls : update_streak_commit(c)
SwapSpec == SwapInit /\ [][SwapNext]_vars

TypeOK ==
    /\ db \in BOOLEAN
    /\ \A u \in Users : ledger[u].spend >= 0 /\ ledger[u].t3 >= 0
    /\ \A r \in Reqs : req[r].pc \in {"idle", "has_budget", "provider", "log_insert",
                                      "log_upsert", "returned", "raised"}

\* ------------------------------------------------------------- the claims
\* what a step of request r is, read off the states before and after it
InFlight(r) == req[r].pc \in {"provider", "log_insert", "log_upsert"}
Returns(r) == req[r].pc # "returned" /\ req'[r].pc = "returned"
UserOf(r) == req[r].user

\* C1: with the ledger attached, two simultaneous tier-3 requests of a user
\* never both pass the weekly-cap check: the tier-3 calls counted this week
\* plus the tier-3 requests that hold a grant never exceed
\* TIER3_WEEKLY_LIMIT, so tier3_calls_this_week never exceeds it either.
C1_WeeklyCapRespected ==
    db => \A u \in Users :
            ledger[u].t3
              + Cardinality({r \in Reqs : /\ InFlight(r)
                                          /\ req[r].kind = "generate_weekly_report"
                                          /\ req[r].user = u})
              <= TIER3_WEEKLY_LIMIT

\* C2: the ledger commit is a check-and-increment: a cost is added to
\* current_month_spend only while the row (if there is one) still has
\* current_month_spend below the monthly budget.
C2_CommitOnlyBelowBudget ==
    [][\A r \in Reqs :
         (req[r].pc = "log_upsert" /\ req'[r].how = "ai")
           => (ledger[UserOf(r)].exists
                 => ledger[UserOf(r)].spend < MONTHLY_BUDGET_USD)]_vars

\* C3: when the budget check denies, select_task returns the Tier-1 rule
\* result (tier 1, cost 0, the first candidate or none) and
\* generate_weekly_report the template (cost 0); that request never reaches
\* the provider and changes neither the ledger nor the usage log.
C3_DeniedReturnsRuleResult ==
    [][\A r \in Reqs :
         /\ ( /\ req[r].pc = "has_budget"
              /\ req'[r].pc \notin {"has_budget", "raised"}
              /\ db
              /\ ledger[UserOf(r)].exists
              /\ \/ ledger[UserOf(r)].spend >= 50 * UnitsPerCent
                 \/ TierOf(r) = 3 /\ ledger[UserOf(r)].t3 >= 1 )
            => /\ req'[r].pc = "returned"
               /\ req'[r].result.cost = 0
               /\ req[r].kind = "select_task"
                    => /\ req'[r].result.tier = 1
                       /\ req'[r].result.selected_task_id
                            = IF req[r].context.available_task_ids = <<>> THEN None
                              ELSE req[r].context.available_task_ids[1]
               /\ req[r].kind = "generate_weekly_report"
                    => req'[r].result.report = "template"
               /\ ledger' = ledger
               /\ usageLog' = usageLog
         /\ req[r].pc = "returned" => req'[r] = req[r]]_vars

C3_Witness ==
    \E r \in Reqs : /\ req[r].pc = "returned"
                    /\ req[r].how = "denied"
                    /\ req[r].kind = "select_task"
                    /\ req[r].result.tier = 1

\* C4: when the budget check allowed and the provider call fails, the handler
\* returns the deterministic fallback (Tier-1 result, or the template)
\* instead of raising, and the request commits no cost: none of its steps up
\* to and including the failure changes the ledger.
C4_ProviderFailureFallsBack ==
    [][\A r \in Reqs :
         /\ (req[r].pc = "provider" /\ req'[r].how = "provider_error")
            => /\ req'[r].pc = "returned"
               /\ req'[r].result.cost = 0
               /\ req'[r].result.tier = IF req[r].kind = "select_task" THEN 1 ELSE 0
               /\ req[r].kind = "generate_weekly_report"
                    => req'[r].result.report = "template"
               /\ ledger' = ledger
         /\ (req[r].pc \in {"idle", "has_budget"} /\ req'[r] # req[r])
            => ledger' = ledger]_vars

C4_Witness ==
    \E r \in Reqs : /\ req[r].pc = "returned"
                    /\ req[r].how = "provider_error"
                    /\ db
                    /\ ledger[req[r].user].exists

\* C5: select_task and generate_weekly_report never propagate a failure of
\* the budget check, of the provider or of usage logging to the caller.
C5_NeverRaises == \A r \in Reqs : req[r].pc # "raised"

\* C6: whenever the budget check allowed and the provider returned a
\* response, the handler returns the AI result (tier 2 or tier 3) and the
\* ledger's current_month_spend has grown by exactly the returned cost.
C6_ResponseIsCommitted ==
    [][\A r \in Reqs :
         (db /\ InFlight(r) /\ Returns(r) /\ req'[r].how # "provider_error")
           => /\ req'[r].result.tier = TierOf(r)
              /\ ledger'[UserOf(r)].exists
              /\ ledger'[UserOf(r)].spend
                   = ledger[UserOf(r)].spend + req'[r].result.cost]_vars

\* C7: with the ledger attached, the budget check for tier 2 or tier 3 denies
\* exactly when the row exists and current_month_spend >= 0.50, or, for tier
\* 3, tier3_calls_this_week >= 1: spend 0.52 and 0.50 deny both tiers, 0.48
\* allows tier 2 and allows tier 3 iff the weekly count is below the limit.
C7_BudgetGate ==
    [][\A r \in Reqs :
         (req[r].pc = "has_budget" /\ req'[r].pc \in {"provider", "returned"} /\ db)
           => LET row == ledger[UserOf(r)]
                  denied == req'[r].pc = "returned"
              IN  /\ denied <=> /\ row.exists
                                /\ \/ row.spend >= 50 * UnitsPerCent
                                   \/ TierOf(r) = 3 /\ row.t3 >= 1
                  /\ row.exists /\ row.spend = 52 * UnitsPerCent => denied
                  /\ row.exists /\ row.spend = 50 * UnitsPerCent => denied
                  /\ (row.exists /\ row.spend = 48 * UnitsPerCent)
                       => (denied <=> (TierOf(r) = 3 /\ row.t3 >= 1))]_vars

C7_Witness ==
    \E r \in Reqs : /\ req[r].pc = "returned"
                    /\ req[r].how = "denied"
                    /\ req[r].kind = "select_task"
                    /\ ledger[req[r].user] = Row(50 * UnitsPerCent, 0)

\* C8: tier3_calls_this_week grows by exactly 1 for every tier-3 attempt that
\* reached the provider, failed or not, and is unchanged by a tier-2 attempt.
C8_Tier3AttemptCounted ==
    [][\A r \in Reqs :
         (db /\ InFlight(r) /\ Returns(r))
           => ledger'[UserOf(r)].t3
                = ledger[UserOf(r)].t3
                    + (IF req[r].kind = "generate_weekly_report" THEN 1 ELSE 0)]_vars

\* C9: when appending the usage record fails, the ledger commit still takes
\* place: current_month_spend grows by the call's cost.
C9_CommitDespiteLogFailure ==
    [][\A r \in Reqs :
         (req[r].pc = "log_insert" /\ req'[r].how = "insert_fault")
           => /\ ledger'[UserOf(r)].exists
              /\ ledger'[UserOf(r)].spend = ledger[UserOf(r)].spend + CostOf(r)]_vars

\* C10: after the weekly reset has run tier3_calls_this_week is 0 for every
\* user, and after the monthly reset current_month_spend is 0 for every user.
C10_ResetsZeroCounters ==
    [][/\ (maintenance' # maintenance /\ maintenance' = "weekly")
            => \A u \in Users : ledger'[u].t3 = 0
       /\ (maintenance' # maintenance /\ maintenance' = "monthly")
            => \A u \in Users : ledger'[u].spend = 0]_vars

Commits(c) == call[c].pc = "selected" /\ call'[c].pc = "idle"
Max(a, b) == IF a >= b THEN a ELSE b

\* C12: an update_streak call on date today turns the current_streak of the
\* row it read into: 1 when last_activity_date is absent; the same value when
\* last_activity_date is today; the value plus exactly 1 when today is one
\* day after last_activity_date; 1 for any larger gap.  That is the value it
\* returns and, when no other call wrote the row meanwhile, the value of the
\* row; afterwards the row's last_activity_date is today.
C12_StreakTransition ==
    [][\A c \in Calls :
         Commits(c) =>
           LET u == call[c].user
               previous == call[c].streak.current_streak
               last == call[c].streak.last_activity_date
               new == reply'.result.current_streak
           IN  /\ reply'.op = "update_streak" /\ reply'.raised = "none"
               /\ last = NoDate => new = 1
               /\ last = today => new = previous
               /\ (last # NoDate /\ today - last = 1) => new = previous + 1
               /\ (last # NoDate /\ today - last > 1) => new = 1
               /\ streaks[u] = call[c].streak => streaks'[u].current_streak = new
               /\ streaks'[u].last_activity_date = today]_vars

C12_Witness ==
    /\ reply.op = "update_streak"
    /\ reply.raised = "none"
    /\ reply.result.current_streak = 6
    /\ \E u \in Users : streaks[u] = Streak(6, 6, 1)
    /\ today = 1

\* C13: update_streak is idempotent within a calendar day: a call that reads
\* the row as an earlier call of that day left it (last_activity_date is
\* today, and longest_streak >= current_streak as every call leaves them)
\* leaves current_streak, longest_streak and last_activity_date of the row as
\* they are, returns the same two values and reports no milestone.
C13_SameDayIdempotent ==
    [][\A c \in Calls :
         ( /\ Commits(c)
           /\ call[c].streak.last_activity_date = today
           /\ call[c].streak.longest_streak >= call[c].streak.current_streak )
           => /\ streaks' = streaks
              /\ reply'.result.milestone_reached = None
              /\ reply'.result.current_streak = call[c].streak.current_streak
              /\ reply'.result.longest_streak = call[c].streak.longest_streak]_vars

C13_Witness ==
    /\ reply.op = "update_streak"
    /\ reply.raised = "none"
    /\ reply.result.current_streak = 7
    /\ reply.result.milestone_reached = None
    /\ \E u \in Users : streaks[u] = Streak(7, 9, 1)
    /\ today = 1

\* C14: from the zero row of onboarding on, every streaks row has
\* longest_streak >= current_streak >= 0, and no update_streak call decreases
\* longest_streak: after each call longest_streak is the larger of the
\* previous longest_streak and the new current_streak.
C14_LongestNeverDecreases ==
    [][/\ \A u \in Users :
            streaks'[u].exists
              => /\ streaks'[u].longest_streak >= streaks'[u].current_streak
                 /\ streaks'[u].current_streak >= 0
       /\ \A c \in Calls :
            Commits(c) =>
              LET u == call[c].user
              IN  /\ streaks'[u].longest_streak >= streaks[u].longest_streak
                  /\ streaks'[u].longest_streak
                       = Max(streaks[u].longest_streak,
                             streaks'[u].current_streak)]_vars

\* C15: update_streak reports milestone m of 7, 14, 30, 60, 90 exactly when
\* previous current_streak < m <= new current_streak, and none otherwise: on
\* consecutive days 5 -> 6 reports none, 6 -> 7 reports 7, and a later call of
\* the same day reports none.
C15_MilestoneOnCrossing ==
    [][\A c \in Calls :
         Commits(c) =>
           LET previous == call[c].streak.current_streak
               new == reply'.result.current_streak
               reported == reply'.result.milestone_reached
           IN  /\ \A m \in {7, 14, 30, 60, 90} :
                    reported = m <=> (previous < m /\ m <= new)
               /\ reported \in {None, 7, 14, 30, 60, 90}
               /\ (previous = 5 /\ new = 6) => reported = None
               /\ (previous = 6 /\ new = 7) => reported = 7
               /\ call[c].streak.last_activity_date = today
                    => reported = None]_vars

C15_Witness ==
    /\ reply.op = "update_streak"
    /\ reply.raised = "none"
    /\ reply.result.milestone_reached = 7
    /\ \E u \in Users : streaks[u] = Streak(7, 7, 2)
    /\ today = 2

C17_EscalationGate ==
    [][\A r \in Reqs :
         /\ (req[r].pc = "idle" /\ req'[r].kind = "select_task")
            => LET context == reply'.args
                   escalates ==
                     \/ context.recent_accuracy # Missing
                          /\ context.recent_accuracy < 60
                     \/ context.consecutive_failures # Missing
                          /\ context.consecutive_failures >= 2
               IN  /\ reply'.op = "select_task"
                   /\ req'[r].pc = "has_budget" <=> escalates
                   /\ ~escalates
                        => /\ req'[r].pc = "returned"
                           /\ req'[r].result.tier = 1
                           /\ req'[r].result.cost = 0
                           /\ req'[r].result.selected_task_id
                                = IF context.available_task_ids = <<>> THEN None
                                  ELSE context.available_task_ids[1]
                   /\ ledger' = ledger
                   /\ usageLog' = usageLog
         /\ (req[r].pc = "returned" /\ req[r].how = "rule")
            => req'[r] = req[r]]_vars

C17_Witness ==
    /\ db
    /\ reply.op = "select_task"
    /\ reply.args.recent_accuracy = 60
    /\ reply.args.consecutive_failures = 1
    /\ \E r \in Reqs : /\ req[r].pc = "returned"
                       /\ req[r].how = "rule"
                       /\ req[r].result.tier = 1

\* the step in which a check_performance_and_swap call is answered
SwapAnswered ==
    /\ reply'.op = "check_performance_and_swap"
    /\ reply' # reply \/ content_swaps' # content_swaps

\* C18: check_performance_and_swap appends a content_swaps row exactly when
\* score < 60 and a replacement task is found for the module on the user's
\* track (a strategy, remediation or practice task titled for the module
\* first, else any task of the track whose title mentions the module), and
\* the row names that task; for score >= 60, 60 included, or when there is no
\* candidate, it returns "no swap" without raising and appends nothing.
C18_SwapIffFailingAndFound ==
    [][/\ SwapAnswered
          => LET a == reply'.args
                 user == users[reply'.user]
                 first == {t \in Tasks :
                             /\ user.exists /\ t.track = user.current_track
                             /\ t.type \in {"strategy", "remediation", "practice"}
                             /\ \E i, j \in DOMAIN t.title :
                                  /\ i < j
                                  /\ Lower(t.title[i]) = a.module
                                  /\ Lower(t.title[j])
                                       \in {"strategy", "intervention", "practice"}}
                 any == {t \in Tasks :
                           /\ user.exists /\ t.track = user.current_track
                           /\ \E i \in DOMAIN t.title : Lower(t.title[i]) = a.module}
                 found == IF first # {} THEN first ELSE any
                 created == content_swaps' # content_swaps
             IN  /\ reply'.raised = "none"
                 /\ created <=> (a.score < 60 /\ found # {})
                 /\ created <=> reply'.result.swapped
                 /\ created
                      => /\ Len(content_swaps') = Len(content_swaps) + 1
                         /\ \E t \in found :
                              /\ content_swaps'[Len(content_swaps')]
                                   = [user_id |-> reply'.user, module |-> a.module,
                                      weakness_type |-> a.score,
                                      original_task_id |-> a.completed_task_id,
                                      intervention_task_id |-> t.id]
                              /\ reply'.result.intervention_task = t.id
                         /\ SubSeq(content_swaps', 1, Len(content_swaps))
                              = content_swaps
                 /\ a.score = 60 => ~created
       /\ content_swaps' # content_swaps
            => reply'.op = "check_performance_and_swap"]_vars

C18_Witness ==
    /\ reply.op = "check_performance_and_swap"
    /\ reply.args.score = 59
    /\ reply.args.module = "reading"
    /\ reply.result.swapped
    /\ reply.result.intervention_task = 3
    /\ content_swaps # <<>>
    /\ content_swaps[Len(content_swaps)].intervention_task_id = 3

\* C19: an operation that names a user without a record fails with NotFound:
\* update_streak for a user without a streaks row, and
\* check_performance_and_swap for a user without a users row, raise
\* NotFoundError instead of returning a result.
C19_AbsentUserNotFound ==
    [][/\ (reply' # reply /\ reply'.op = "update_streak"
             /\ ~streaks[reply'.user].exists)
            => reply'.raised = "NotFoundError"
       /\ (reply' # reply /\ reply'.op = "check_performance_and_swap"
             /\ ~users[reply'.user].exists)
            => reply'.raised = "NotFoundError"]_vars

\* C20: the weekly and the monthly reset are idempotent: for every ledger
\* state, a reset that runs again, with no commit since it ran, leaves every
\* user's ledger row exactly as its first run left it.
C20_ResetsIdempotent ==
    [][( /\ maintenance' # maintenance
         /\ \/ maintenance = "weekly" /\ maintenance' = "weekly_again"
            \/ maintenance = "monthly" /\ maintenance' = "monthly_again"
         /\ \A r \in Reqs : req[r].pc = "idle" )
       => ledger' = ledger]_vars

C20_Witness ==
    /\ maintenance = "monthly_again"
    /\ \A r \in Reqs : req[r].pc = "idle"
    /\ \E u \in Users : ledger[u] = Row(52 * UnitsPerCent, 1)

\* a monthly reset runs in this step
MonthlyReset == maintenance' # maintenance /\ maintenance' \in {"monthly", "monthly_again"}

\* C21: between monthly resets current_month_spend of a user never decreases
\* and is changed by nothing but the budget statement of log_usage: the
\* budget check, get_monthly_summary, and the escalations that are denied or
\* fail leave the ledger as it is.  total_lifetime_spend never decreases in any
\* step, resets included.
C21_SpendOnlyGrowsByCommit ==
    [][/\ ~MonthlyReset
            => \A u \in Users :
                 /\ ledger'[u].spend >= ledger[u].spend
                 /\ ledger'[u] # ledger[u]
                      => \E r \in Reqs : /\ req[r].pc = "log_upsert"
                                         /\ req'[r].how = "ai"
                                         /\ UserOf(r) = u
       /\ \A u \in Users : ledger'[u].lifetime >= ledger[u].lifetime
       /\ (reply' # reply /\ reply'.op = "get_monthly_summary")
            => ledger' = ledger
       /\ \A r \in Reqs :
            /\ (req[r].pc = "has_budget" /\ req'[r] # req[r]) => ledger' = ledger
            /\ ( /\ Returns(r)
                 /\ req'[r].how \in {"denied", "provider_error",
                                     "malformed_response", "insert_fault",
                                     "upsert_fault"} )
                 => ledger' = ledger]_vars

C21_Witness ==
    /\ db
    /\ \E r \in Reqs : req[r].pc = "returned" /\ req[r].how = "ai"
    /\ reply.op = "get_monthly_summary"
    /\ reply.raised = "none"
    /\ reply.result.spend = 49 * UnitsPerCent
    /\ \E u \in Users : ledger[u] = Row(49 * UnitsPerCent, 0)

\* C22: update_streak calls of one user on one calendar day are serialized:
\* a call that returns after another call has already recorded today's
\* activity in the row acts as the later call of a serial order, so it leaves
\* current_streak as it is and reports no milestone; current_streak changes at
\* most once that day and a crossed milestone is reported by one call only.
C22_SameDaySerialized ==
    [][\A c \in Calls :
         (Commits(c) /\ streaks[call[c].user].last_activity_date = today)
           => /\ reply'.result.milestone_reached = None
              /\ streaks'[call[c].user].current_streak
                   = streaks[call[c].user].current_streak]_vars

\* the requests whose attempt at the provider is over, and the kinds of end
AttemptFailed == {"provider_error", "malformed_response"}
AttemptOver(r) ==
    \/ req[r].pc = "log_upsert"
    \/ /\ req[r].pc = "returned"
       /\ req[r].how \in AttemptFailed \cup {"ai", "insert_fault", "upsert_fault"}

\* C23: with the ledger attached, the usage log holds exactly one record for
\* every escalation attempt that reached the provider and is over, failed
\* attempts included, and a failed attempt's record has success = FALSE; the
\* log only grows by appending: no step changes or removes a record.
C23_EveryAttemptLogged ==
    [][/\ db' => /\ Len(usageLog') = Cardinality({r \in Reqs : AttemptOver(r)'})
                 /\ Cardinality({i \in DOMAIN usageLog' : ~usageLog'[i].success})
                      = Cardinality({r \in Reqs : /\ req'[r].pc = "returned"
                                                  /\ req'[r].how \in AttemptFailed})
       /\ Len(usageLog') >= Len(usageLog)
       /\ SubSeq(usageLog', 1, Len(usageLog)) = usageLog]_vars

\* C24: the cost of a call is (tokensIn/1000)*rateIn + (tokensOut/1000)*rateOut
\* at the rates of its tier, (0.00025, 0.00125) for tier 2 and (0.003, 0.015)
\* for tier 3: it is the cost the handler returns and, rounded to 6 decimals,
\* the cost_usd of the usage record.  500 input and 50 output tokens at tier 2
\* cost 0.0001875, recorded as 0.000188; 1000 and 500 tokens at tier 3 cost
\* 0.0105.
C24_CostFormula ==
    [][\A r \in Reqs :
         LET tokensIn == req[r].usage[1]
             tokensOut == req[r].usage[2]
             \* the rates per token (a thousandth of the rate per 1K tokens)
             rateIn == IF TierOf(r) = 2 THEN 25 ELSE 300
             rateOut == IF TierOf(r) = 2 THEN 125 ELSE 1500
             cost == tokensIn * rateIn + tokensOut * rateOut
         IN  /\ (req[r].pc = "log_upsert" /\ req'[r].how = "ai")
                => /\ req'[r].result.cost = cost
                   /\ (TierOf(r) = 2 /\ tokensIn = 500 /\ tokensOut = 50)
                        => req'[r].result.cost = 18750
                   /\ (TierOf(r) = 3 /\ tokensIn = 1000 /\ tokensOut = 500)
                        => req'[r].result.cost = 10500 * UnitsPerMicro
             /\ (req[r].pc = "log_insert" /\ req'[r].pc = "log_upsert")
                => LET record == usageLog'[Len(usageLog')]
                   IN  /\ record.cost_usd % UnitsPerMicro = 0
                       /\ 2 * (record.cost_usd - cost) <= UnitsPerMicro
                       /\ 2 * (cost - record.cost_usd) < UnitsPerMicro
                       /\ (TierOf(r) = 2 /\ tokensIn = 500 /\ tokensOut = 50)
                            => record.cost_usd = 188 * UnitsPerMicro
                       /\ (TierOf(r) = 3 /\ tokensIn = 1000 /\ tokensOut = 500)
                            => record.cost_usd = 10500 * UnitsPerMicro]_vars

C24_Witness ==
    /\ \E r \in Reqs : /\ req[r].pc = "returned"
                       /\ req[r].how = "ai"
                       /\ req[r].kind = "select_task"
                       /\ req[r].result.cost = 18750
    /\ \E r \in Reqs : /\ req[r].pc = "returned"
                       /\ req[r].how = "ai"
                       /\ req[r].kind = "generate_weekly_report"
                       /\ req[r].result.cost = 10500 * UnitsPerMicro
    /\ \E i \in DOMAIN usageLog :
         usageLog[i].tier = 2 /\ usageLog[i].cost_usd = 188 * UnitsPerMicro

\* C25: a user without a ledger row has full budget: the check allows tier 2
\* and tier 3.  The first commit for that user creates the row with
\* current_month_spend equal to the cost of that call and
\* tier3_calls_this_week 1 for a tier-3 call, 0 otherwise; a later commit adds
\* its cost (and 1 for tier 3) to the row that exists.
C25_LazyLedgerRow ==
    [][\A r \in Reqs :
         LET row == ledger[UserOf(r)]
             inc == IF TierOf(r) = 3 THEN 1 ELSE 0
             commits == req[r].pc = "log_upsert" /\ req'[r].how = "ai"
         IN  /\ ( /\ req[r].pc = "has_budget"
                  /\ req'[r].pc \notin {"has_budget", "raised"}
                  /\ db /\ ~row.exists )
                  => req'[r].pc = "provider"
             /\ (commits /\ ~row.exists)
                  => /\ ledger'[UserOf(r)].exists
                     /\ ledger'[UserOf(r)].spend = CostOf(r)
                     /\ ledger'[UserOf(r)].t3 = inc
             /\ (commits /\ row.exists)
                  => /\ ledger'[UserOf(r)].exists
                     /\ ledger'[UserOf(r)].spend = row.spend + CostOf(r)
                     /\ ledger'[UserOf(r)].t3 = row.t3 + inc]_vars

\* C26: a learner with a mid-range score (5.5 <= score < 6.5), 21 days or
\* more until the exam and 20 minutes a day is put on professional_marathon,
\* with no weak module reported and with speaking reported as the weak one.
C26_MarathonForProfessionals ==
    ( /\ reply.op = "process_diagnostic"
      /\ reply.args.diagnostic_score >= 55
      /\ reply.args.diagnostic_score < 65
      /\ reply.args.days_until_exam >= 21
      /\ reply.args.daily_availability_minutes = 20
      /\ reply.args.weak_module \in {NoModule, "speaking"} )
      => reply.result.assigned_track = "professional_marathon"

\* C27: a learner with a high baseline (score >= 6.5), 60 days until the exam
\* and 30 minutes a day is put on intensive, academic_fast_track or
\* general_fast_track.
C27_HighBaselineTrack ==
    ( /\ reply.op = "process_diagnostic"
      /\ reply.args.diagnostic_score >= 65
      /\ reply.args.days_until_exam = 60
      /\ reply.args.daily_availability_minutes = 30 )
      => reply.result.assigned_track
           \in {"intensive", "academic_fast_track", "general_fast_track"}

\* C28: each log_usage adds the same amount to the usage log and to the
\* ledger, so that current_month_spend stays the sum of cost_usd over the
\* user's usage records of the period: the commit of a call raises
\* current_month_spend by the cost_usd of the record the call appended, and
\* nothing of it, sub-cent tier-2 costs included, is lost to the column's two
\* decimals.
C28_LedgerMatchesLog ==
    [][\A r \in Reqs :
         (req[r].pc = "log_upsert" /\ req'[r].how = "ai")
           => \E i \in DOMAIN usageLog :
                /\ usageLog[i] = usage_record(UserOf(r), TierOf(r), req[r].usage[1],
                                              req[r].usage[2], CostOf(r))
                /\ ledger'[UserOf(r)].spend
                     = ledger[UserOf(r)].spend + usageLog[i].cost_usd]_vars

\* C29: whatever tier answers, the task select_task returns is one of the
\* caller's candidates: a selected_task_id that is not null is a member of the
\* available_task_ids of the call, and it is null when that list is empty,
\* for every reply of the provider.
C29_SelectedTaskIsCandidate ==
    \A r \in Reqs :
      ( /\ reply.op = "select_task"
        /\ req[r].pc = "returned"
        /\ req[r].kind = "select_task" )
        => LET available == reply.args.available_task_ids
               selected == req[r].result.selected_task_id
           IN  /\ selected # None
                    => \E i \in DOMAIN available : available[i] = selected
               /\ available = <<>> => selected = None

\* C30: the tracks that seed_database creates carry every name assign_track
\* returns: once the tracks table is seeded, the current_track of every
\* onboarded user is the name of a row of it.
C30_AssignedTrackIsSeeded ==
    \A u \in Users :
      (tracks # {} /\ users[u].exists)
        => \E t \in tracks : t.name = users[u].current_track

====
